---- MODULE Spec2Model ----
(***************************************************************************)
(* Model of the subagent invocation task of codex-rs                        *)
(* (core/src/tasks/subagent.rs): SubAgentTask::run, SubAgentTask::abort    *)
(* and run_subagent, together with the environment they race against: the  *)
(* supplied cancellation token and the event stream of the conversation    *)
(* engine started by run_codex_conversation_one_shot.  Further sections    *)
(* model the sandbox policy derivation (sandbox_policy_for_mode) and, from *)
(* core/src/subagents.rs, parse_frontmatter and definition discovery.      *)
(***************************************************************************)
EXTENDS Integers, Sequences, FiniteSets, TLC

\* Bounds of the model.
MaxEvents == 3      \* events the engine delivers during one invocation
MaxAborts == 1      \* calls of abort by the scheduler
MaxQueue == 1       \* unread events buffered by an engine that never stops delivering

\* Option<String>: None and Some(v).
None == <<>>
Some(v) == <<v>>

\* Texts carried by agent-message events, error events and start failures.
Messages == {"X", "Y"}
ErrorMessages == {"boom"}
StartErrors == {"spawn failed"}

\* SubAgentDefinition values a task can be constructed with.
Definitions == {[name |-> "reviewer"], [name |-> "tester"]}

\* EventMsg variants delivered by io.next_event().
AgentMessage(m) == [type |-> "AgentMessage", message |-> m]
TaskComplete == [type |-> "TaskComplete", message |-> ""]
TurnAborted == [type |-> "TurnAborted", message |-> ""]
ErrorEvent(m) == [type |-> "Error", message |-> m]
OtherEvent == [type |-> "Other", message |-> ""]

EngineEvents ==
    {AgentMessage(m) : m \in Messages} \cup {ErrorEvent(m) : m \in ErrorMessages}
        \cup {TaskComplete, TurnAborted, OtherEvent}

\* Result of run_codex_conversation_one_shot.
IoPending == [tag |-> "Pending", err |-> ""]
IoOk == [tag |-> "Ok", err |-> ""]
IoErr(d) == [tag |-> "Err", err |-> d]

\* EventMsg::SubAgentInvocationStarted as published by run; "by" records the
\* call site that published the event.
StartedEvent(d) ==
    [type |-> "SubAgentInvocationStarted", subagent |-> d, status |-> "",
     output |-> None, error |-> None, by |-> "run"]

FinishedEvent_DropsOutput(d, st, out, err) ==
    [type |-> "SubAgentInvocationFinished", subagent |-> d, status |-> st,
     output |-> IF st = "Completed" THEN out ELSE None, error |-> err, by |-> "run"]

\* EventMsg::SubAgentInvocationFinished as published by run from the outcome.
FinishedEvent(d, st, out, err) ==
    [type |-> "SubAgentInvocationFinished", subagent |-> d, status |-> st,
     output |-> out, error |-> err, by |-> "run"]

\* EventMsg::SubAgentInvocationFinished as published by abort.
AbortEvent(d) ==
    [type |-> "SubAgentInvocationFinished", subagent |-> d, status |-> "Cancelled",
     output |-> None, error |-> None, by |-> "abort"]

VARIABLES
    definition,   \* self.definition
    pc,           \* position of run: idle, starting, select, finishing, done, dropped
    token,        \* the supplied cancellation_token has been triggered
    io,           \* result of run_codex_conversation_one_shot
    queue,        \* events delivered by the engine and not yet read by next_event
    closed,       \* the engine's event stream is closed
    consumed,     \* events read by io.next_event(), in order
    status,       \* run_subagent's status
    output,       \* run_subagent's output
    error,        \* error of the SubAgentOutcome
    branch,       \* the path on which run_subagent left
    events,       \* lifecycle events published to the session, in order
    retval,       \* value returned by run
    aborts,       \* number of calls of abort
    scope,        \* the cancellation scope the engine was started with
    policy,       \* policy derivation: mode, default policy and derived policy
    parse,        \* parse_frontmatter: content and returned tuple
    disc          \* discovery: directories, loop position and collected lists

\* State of one invocation, and state of the pure computations.
taskVars == <<definition, pc, token, io, queue, closed, consumed, status, output,
              error, branch, events, retval, aborts, scope>>
fnVars == <<policy, parse, disc>>

vars == <<taskVars, fnVars>>

\* A computation that is not under way.
Idle == [pc |-> "idle"]

\* No engine has been started.
NoScope == [kind |-> "none", cancelled |-> FALSE, by |-> ""]

ChildToken_Clone(parentCancelled) ==
    [kind |-> "same", cancelled |-> parentCancelled,
     by |-> IF parentCancelled THEN "parent" ELSE ""]

\* cancellation_token.child_token(): cancelled with its parent, and born
\* cancelled when the parent already is; cancelling it leaves the parent alone.
\* "by" records who cancelled the scope: the parent token or the scope itself.
ChildToken(parentCancelled) ==
    [kind |-> "child", cancelled |-> parentCancelled,
     by |-> IF parentCancelled THEN "parent" ELSE ""]

\* A task as constructed by SubAgentTask::new, before run or abort is called.
TaskInit ==
    /\ definition \in Definitions
    /\ pc = "idle"
    /\ token = FALSE
    /\ io = IoPending
    /\ queue = <<>>
    /\ closed = FALSE
    /\ consumed = <<>>
    /\ status = "Unset"
    /\ output = None
    /\ error = None
    /\ branch = "none"
    /\ events = <<>>
    /\ retval = None
    /\ aborts = 0
    /\ scope = NoScope

\* No invocation is under way while a pure computation is examined.
NoTask == TaskInit /\ definition = [name |-> "reviewer"]

Init ==
    /\ TaskInit
    /\ policy = Idle
    /\ parse = Idle
    /\ disc = Idle

----------------------------------------------------------------------------
\* The arms of run_subagent.  Each gives the locals after the arm and where
\* run continues: "select" (loop again) or "finishing" (run_subagent returned).

Arm(st, out, err, br, next) ==
    [status |-> st, output |-> out, error |-> err, branch |-> br, pc |-> next]

OnStartError_EntersLoop(d) == Arm("Completed", None, None, "none", "select")

OnStartError_NoError(d) == Arm("Failed", None, None, "start_failed", "finishing")

\* Err(err) => return SubAgentOutcome { Failed, None, Some(err.to_string()) }
OnStartError(d) == Arm("Failed", None, Some(d), "start_failed", "finishing")

\* Ok(io) => io; let mut output = None; let mut status = Completed;
OnStartOk == Arm("Completed", None, None, "none", "select")

OnCancelled_KeepsStatus(st, out) == Arm(st, out, None, "cancel", "finishing")

\* _ = cancellation_token.cancelled() => { status = Cancelled; break; }
OnCancelled(st, out) == Arm("Cancelled", out, None, "cancel", "finishing")

OnRecvError_Fails(st, out) == Arm("Failed", out, Some("recv"), "recv_error", "finishing")

\* let Ok(event) = event else { status = Cancelled; break; };
OnRecvError(st, out) == Arm("Cancelled", out, None, "recv_error", "finishing")

OnAgentMessage_KeepsFirst(st, out, m) ==
    Arm(st, IF out = None THEN Some(m) ELSE out, None, "none", "select")

\* EventMsg::AgentMessage(ev) => { output = Some(ev.message); }
OnAgentMessage(st, out, m) == Arm(st, Some(m), None, "none", "select")

OnTaskComplete_Continues(st, out) == Arm(st, out, None, "task_complete", "select")

\* EventMsg::TaskComplete(_) => { break; }
OnTaskComplete(st, out) == Arm(st, out, None, "task_complete", "finishing")

OnTurnAborted_KeepsStatus(st, out) == Arm(st, out, None, "turn_aborted", "finishing")

\* EventMsg::TurnAborted(_) => { status = Cancelled; break; }
OnTurnAborted(st, out) == Arm("Cancelled", out, None, "turn_aborted", "finishing")

OnError_KeepsOutput(st, out, m) == Arm("Failed", out, Some(m), "error", "finishing")

OnError_SkipsFinished(st, out, m) == Arm("Failed", None, Some(m), "error", "done")

\* EventMsg::Error(err) => { status = Failed; output = None; return ... }
OnError(st, out, m) == Arm("Failed", None, Some(m), "error", "finishing")

OnOther_ClearsOutput(st, out) == Arm(st, None, None, "none", "select")

\* _ => {}
OnOther(st, out) == Arm(st, out, None, "none", "select")

\* match event.msg { ... }
OnEvent(ev, st, out) ==
    CASE ev.type = "AgentMessage" -> OnAgentMessage(st, out, ev.message)
      [] ev.type = "TaskComplete" -> OnTaskComplete(st, out)
      [] ev.type = "TurnAborted"  -> OnTurnAborted(st, out)
      [] ev.type = "Error"        -> OnError(st, out, ev.message)
      [] OTHER                    -> OnOther(st, out)

Apply(arm) ==
    /\ status' = arm.status
    /\ output' = arm.output
    /\ error' = arm.error
    /\ branch' = arm.branch
    /\ pc' = arm.pc

----------------------------------------------------------------------------
\* SubAgentTask::run up to its first await on run_subagent: publish "started".
RunStart ==
    /\ pc = "idle"
    /\ events' = Append(events, StartedEvent(definition))
    /\ pc' = "starting"
    /\ UNCHANGED <<fnVars, scope, definition, token, io, queue, closed, consumed, status,
                   output, error, branch, retval, aborts>>

\* run_subagent: run_codex_conversation_one_shot(...).await returned Ok(io).
StartEngineOk ==
    /\ pc = "starting"
    /\ io' = IoOk
    /\ scope' = ChildToken(token)
    /\ Apply(OnStartOk)
    /\ UNCHANGED <<fnVars, definition, token, queue, closed, consumed, events, retval, aborts>>

\* run_subagent: run_codex_conversation_one_shot(...).await returned Err(err).
StartEngineErr(d) ==
    /\ pc = "starting"
    /\ io' = IoErr(d)
    /\ Apply(OnStartError(d))
    /\ UNCHANGED <<fnVars, scope, definition, token, queue, closed, consumed, events, retval, aborts>>

SelectCancelled_AfterEvents ==
    /\ pc = "select"
    /\ token
    /\ queue = <<>>
    /\ ~closed
    /\ Apply(OnCancelled(status, output))
    /\ UNCHANGED <<fnVars, scope, definition, token, io, queue, closed, consumed, events, retval, aborts>>

\* select!: the cancellation branch is ready and is the one taken.
SelectCancelled ==
    /\ pc = "select"
    /\ token
    /\ Apply(OnCancelled(status, output))
    /\ UNCHANGED <<fnVars, scope, definition, token, io, queue, closed, consumed, events, retval, aborts>>

\* The log of events read keeps the first MaxEvents of them.
Read(log, ev) == IF Len(log) < MaxEvents THEN Append(log, ev) ELSE log

\* select!: io.next_event() is ready and is the one taken.
SelectNextEvent ==
    /\ pc = "select"
    /\ \/ /\ queue /= <<>>
          /\ consumed' = Read(consumed, Head(queue))
          /\ queue' = Tail(queue)
          /\ Apply(OnEvent(Head(queue), status, output))
       \/ /\ queue = <<>>
          /\ closed
          /\ Apply(OnRecvError(status, output))
          /\ UNCHANGED <<queue, consumed>>
    /\ UNCHANGED <<fnVars, scope, definition, token, io, closed, events, retval, aborts>>

\* SubAgentTask::run after run_subagent: publish "finished", return the output.
RunFinish ==
    /\ pc = "finishing"
    /\ events' = Append(events, FinishedEvent(definition, status, output, error))
    /\ retval' = output
    /\ pc' = "done"
    /\ UNCHANGED <<fnVars, scope, definition, token, io, queue, closed, consumed, status,
                   output, error, branch, aborts>>

Abort_CancelsToken ==
    /\ aborts < MaxAborts
    /\ aborts' = aborts + 1
    /\ events' = Append(events, AbortEvent(definition))
    /\ token' = TRUE
    /\ UNCHANGED <<fnVars, scope, definition, pc, io, queue, closed, consumed, status,
                   output, error, branch, retval>>

\* SubAgentTask::abort.
Abort ==
    /\ aborts < MaxAborts
    /\ aborts' = aborts + 1
    /\ events' = Append(events, AbortEvent(definition))
    /\ UNCHANGED <<fnVars, scope, definition, pc, token, io, queue, closed, consumed, status,
                   output, error, branch, retval>>

\* The scheduler drops run's future while it is suspended at an await.
DropRun ==
    /\ pc \in {"starting", "select", "finishing"}
    /\ pc' = "dropped"
    /\ UNCHANGED <<fnVars, scope, definition, token, io, queue, closed, consumed, status,
                   output, error, branch, events, retval, aborts>>

\* The owner of cancellation_token triggers it.
Cancel ==
    /\ ~token
    /\ token' = TRUE
    /\ scope' = IF scope.kind \in {"child", "same"} /\ ~scope.cancelled
                 THEN [scope EXCEPT !.cancelled = TRUE, !.by = "parent"] ELSE scope
    /\ UNCHANGED <<fnVars, definition, pc, io, queue, closed, consumed, status,
                   output, error, branch, events, retval, aborts>>

\* The engine's scope is cancelled on its own (by the engine or its holder).
CancelScope ==
    /\ scope.kind /= "none"
    /\ ~scope.cancelled
    /\ scope' = [scope EXCEPT !.cancelled = TRUE, !.by = "self"]
    /\ token' = IF scope.kind = "same" THEN TRUE ELSE token
    /\ UNCHANGED <<fnVars, definition, pc, io, queue, closed, consumed, status,
                   output, error, branch, events, retval, aborts>>

\* The engine delivers an event to its stream.
EngineEmit(ev) ==
    /\ io.tag = "Ok"
    /\ ~closed
    /\ Len(consumed) + Len(queue) < MaxEvents
    /\ queue' = Append(queue, ev)
    /\ UNCHANGED <<fnVars, scope, definition, pc, token, io, closed, consumed, status,
                   output, error, branch, events, retval, aborts>>

\* The engine's stream closes: next_event fails once the buffer is drained.
EngineClose ==
    /\ io.tag = "Ok"
    /\ ~closed
    /\ closed' = TRUE
    /\ UNCHANGED <<fnVars, scope, definition, pc, token, io, queue, consumed, status,
                   output, error, branch, events, retval, aborts>>

Next ==
    \/ RunStart
    \/ StartEngineOk
    \/ \E d \in StartErrors : StartEngineErr(d)
    \/ SelectCancelled
    \/ SelectNextEvent
    \/ RunFinish
    \/ Abort
    \/ DropRun
    \/ Cancel
    \/ CancelScope
    \/ \E ev \in EngineEvents : EngineEmit(ev)
    \/ EngineClose

Spec == Init /\ [][Next]_vars

----------------------------------------------------------------------------
\* One run left to itself (no abort, no drop) against an engine that may
\* deliver events for ever.

\* The engine delivers an event; the stream buffers at most MaxQueue of them.
EngineDeliver(ev) ==
    /\ io.tag = "Ok"
    /\ ~closed
    /\ Len(queue) < MaxQueue
    /\ queue' = Append(queue, ev)
    /\ UNCHANGED <<fnVars, scope, definition, pc, token, io, closed, consumed, status,
                   output, error, branch, events, retval, aborts>>

NextLive ==
    \/ RunStart
    \/ StartEngineOk
    \/ \E d \in StartErrors : StartEngineErr(d)
    \/ SelectCancelled
    \/ SelectNextEvent
    \/ RunFinish
    \/ Cancel
    \/ \E ev \in EngineEvents : EngineDeliver(ev)
    \/ EngineClose

\* The executor keeps polling run, the engine start returns, and select!
\* picks fairly among the branches that are ready.
FairRun ==
    /\ WF_vars(RunStart)
    /\ WF_vars(StartEngineOk \/ \E d \in StartErrors : StartEngineErr(d))
    /\ WF_vars(SelectCancelled)
    /\ WF_vars(SelectNextEvent)
    /\ WF_vars(RunFinish)

SpecLive == Init /\ [][NextLive]_vars /\ FairRun

----------------------------------------------------------------------------
\* Policy derivation: the sandbox policy of the engine's configuration.

\* SubAgentMode, and Option<SubAgentMode> as carried by a definition.
Modes == {"ReadOnly", "FullAuto", "DangerFullAccess"}
OptionalModes == {None} \cup {Some(m) : m \in Modes}

\* SandboxPolicy values; the fields of WorkspaceWrite are blank in the others.
Policy(kind, roots, net, tmpdir, slashTmp) ==
    [kind |-> kind, writable_roots |-> roots, network_access |-> net,
     exclude_tmpdir_env_var |-> tmpdir, exclude_slash_tmp |-> slashTmp]

DangerFullAccess == Policy("DangerFullAccess", <<>>, FALSE, FALSE, FALSE)

\* SandboxPolicy::new_read_only_policy()
NewReadOnlyPolicy == Policy("ReadOnly", <<>>, FALSE, FALSE, FALSE)

\* SandboxPolicy::new_workspace_write_policy()
NewWorkspaceWritePolicy == Policy("WorkspaceWrite", <<>>, FALSE, FALSE, FALSE)

WritableRoots == {<<>>, <<"/work">>}

\* The policies a turn can carry.
SandboxPolicies ==
    {DangerFullAccess, NewReadOnlyPolicy}
        \cup {Policy("WorkspaceWrite", r, n, t, st) :
                 r \in WritableRoots, n \in BOOLEAN, t \in BOOLEAN, st \in BOOLEAN}

\* SandboxPolicy::has_full_network_access()
HasFullNetworkAccess(p) ==
    CASE p.kind = "DangerFullAccess" -> TRUE
      [] p.kind = "ReadOnly"         -> FALSE
      [] OTHER                       -> p.network_access

\* subagent.mode.unwrap_or_default(), with #[default] ReadOnly
UnwrapOrDefault(m) == IF m = None THEN "ReadOnly" ELSE m[1]

SandboxPolicyForMode_KeepsNetworkOff(mode, default) ==
    CASE mode = "ReadOnly" -> NewReadOnlyPolicy
      [] mode = "FullAuto" ->
            LET wasWrite == default.kind = "WorkspaceWrite"
            IN  [NewWorkspaceWritePolicy EXCEPT
                    !.exclude_tmpdir_env_var = wasWrite /\ default.exclude_tmpdir_env_var,
                    !.exclude_slash_tmp = wasWrite /\ default.exclude_slash_tmp]
      [] OTHER -> DangerFullAccess

\* sandbox_policy_for_mode
SandboxPolicyForMode(mode, default) ==
    CASE mode = "ReadOnly" -> NewReadOnlyPolicy
      [] mode = "FullAuto" ->
            LET default_exclude_tmpdir ==
                    IF default.kind = "WorkspaceWrite"
                    THEN default.exclude_tmpdir_env_var ELSE FALSE
                default_exclude_slash_tmp ==
                    IF default.kind = "WorkspaceWrite"
                    THEN default.exclude_slash_tmp ELSE FALSE
            IN  [NewWorkspaceWritePolicy EXCEPT
                    !.network_access = HasFullNetworkAccess(default),
                    !.exclude_tmpdir_env_var = default_exclude_tmpdir,
                    !.exclude_slash_tmp = default_exclude_slash_tmp]
      [] OTHER -> DangerFullAccess

\* run is called for a definition with some mode under a turn with some policy.
InitPolicy ==
    /\ NoTask
    /\ parse = Idle
    /\ disc = Idle
    /\ policy \in {[pc |-> "run", mode |-> m, default |-> d, effective |-> "",
                    config |-> NewReadOnlyPolicy] :
                       m \in OptionalModes, d \in SandboxPolicies}

\* SubAgentTask::run: let mode = subagent.mode.unwrap_or_default();
UnwrapMode ==
    /\ policy.pc = "run"
    /\ policy' = [policy EXCEPT !.pc = "run_subagent",
                                !.effective = UnwrapOrDefault(policy.mode)]
    /\ UNCHANGED <<taskVars, parse, disc>>

\* run_subagent: sub_agent_config.sandbox_policy = sandbox_policy_for_mode(..)
ConfigureSandbox ==
    /\ policy.pc = "run_subagent"
    /\ policy' = [policy EXCEPT !.pc = "configured",
                     !.config = SandboxPolicyForMode(policy.effective, policy.default)]
    /\ UNCHANGED <<taskVars, parse, disc>>

NextPolicy ==
    \/ UnwrapMode
    \/ ConfigureSandbox

SpecPolicy == InitPolicy /\ [][NextPolicy]_vars

----------------------------------------------------------------------------
\* parse_frontmatter.  A text is a sequence of one-byte characters; the
\* characters space, tab, carriage return, line feed and the two quotes are
\* written "SP", "TAB", "CR", "LF", "QUOTE" and "DQUOTE".

MaxLines == 3       \* lines of a parsed document

Whitespace == {"SP", "TAB", "CR", "LF"}

Upper == <<"A", "B", "C", "D", "E", "F", "G", "H", "I", "J", "K", "L", "M",
           "N", "O", "P", "Q", "R", "S", "T", "U", "V", "W", "X", "Y", "Z">>
Lower == <<"a", "b", "c", "d", "e", "f", "g", "h", "i", "j", "k", "l", "m",
           "n", "o", "p", "q", "r", "s", "t", "u", "v", "w", "x", "y", "z">>

\* str::to_ascii_lowercase
ToAsciiLowercase(t) ==
    [i \in 1..Len(t) |->
        IF \E k \in 1..26 : Upper[k] = t[i]
        THEN Lower[CHOOSE k \in 1..26 : Upper[k] = t[i]]
        ELSE t[i]]

\* str::trim_end_matches(['\r', '\n'])
RECURSIVE TrimEndMatches(_)
TrimEndMatches(t) ==
    IF t /= <<>> /\ t[Len(t)] \in {"CR", "LF"}
    THEN TrimEndMatches(SubSeq(t, 1, Len(t) - 1))
    ELSE t

\* str::trim
RECURSIVE Trim(_)
Trim(t) ==
    IF t = <<>> THEN t
    ELSE IF t[1] \in Whitespace THEN Trim(Tail(t))
    ELSE IF t[Len(t)] \in Whitespace THEN Trim(SubSeq(t, 1, Len(t) - 1))
    ELSE t

\* Position of the first occurrence of character c in t, 0 if there is none.
Find(t, c) ==
    IF \E i \in 1..Len(t) : t[i] = c
    THEN CHOOSE i \in 1..Len(t) : t[i] = c /\ \A j \in 1..(i - 1) : t[j] /= c
    ELSE 0

\* str::split_inclusive('\n')
RECURSIVE SplitInclusive(_)
SplitInclusive(t) ==
    IF t = <<>> THEN <<>>
    ELSE LET n == Find(t, "LF")
         IN  IF n = 0 THEN <<t>>
             ELSE <<SubSeq(t, 1, n)>> \o SplitInclusive(SubSeq(t, n + 1, Len(t)))

\* str::split(',')
RECURSIVE SplitComma(_)
SplitComma(t) ==
    LET n == Find(t, ",")
    IN  IF n = 0 THEN <<t>>
        ELSE <<SubSeq(t, 1, n - 1)>> \o SplitComma(SubSeq(t, n + 1, Len(t)))

NonEmpty(t) == t /= <<>>

\* split_list
SplitList(input) ==
    LET parts == SplitComma(input)
    IN  SelectSeq([i \in 1..Len(parts) |-> Trim(parts[i])], NonEmpty)

\* parse_mode
ParseMode(input) ==
    LET v == ToAsciiLowercase(Trim(input))
    IN  CASE v \in {<<"r", "e", "a", "d", "-", "o", "n", "l", "y">>,
                    <<"r", "e", "a", "d", "o", "n", "l", "y">>} -> Some("ReadOnly")
          [] v \in {<<"f", "u", "l", "l", "-", "a", "u", "t", "o">>,
                    <<"f", "u", "l", "l", "_", "a", "u", "t", "o">>} -> Some("FullAuto")
          [] v \in {<<"d", "a", "n", "g", "e", "r", "-", "f", "u", "l", "l", "-", "a", "c", "c", "e", "s", "s">>,
                    <<"d", "a", "n", "g", "e", "r", "_", "f", "u", "l", "l", "_", "a", "c", "c", "e", "s", "s">>,
                    <<"d", "a", "n", "g", "e", "r">>} -> Some("DangerFullAccess")
          [] OTHER -> None

Marker == <<"-", "-", "-">>

\* The tuple parse_frontmatter returns.
Parsed(desc, allowed, blocked, mode, body) ==
    [description |-> desc, tools_allowed |-> allowed, tools_blocked |-> blocked,
     mode |-> mode, body |-> body]

\* The locals of parse_frontmatter after the first line was accepted.
ScanStart(first_segment) ==
    [desc |-> None, allowed |-> <<>>, blocked |-> <<>>, mode |-> None,
     frontmatter_closed |-> FALSE, consumed |-> Len(first_segment)]

\* if trimmed == "---" { frontmatter_closed = true; consumed += ..; break; }
CloseBlock(st, segment) ==
    [st EXCEPT !.frontmatter_closed = TRUE, !.consumed = @ + Len(segment)]

SkipLine_NotCounted(st, segment) == st

\* if trimmed.is_empty() || trimmed.starts_with('#') { consumed += ..; continue; }
SkipLine(st, segment) == [st EXCEPT !.consumed = @ + Len(segment)]

\* The quote stripping of a value.
Unquote(val) ==
    IF /\ Len(val) >= 2
       /\ \/ val[1] = "DQUOTE" /\ val[Len(val)] = "DQUOTE"
          \/ val[1] = "QUOTE" /\ val[Len(val)] = "QUOTE"
    THEN SubSeq(val, 2, Len(val) - 1)
    ELSE val

\* if let Some((k, v)) = trimmed.split_once(':') { ... } consumed += ..;
KeyValueLine(st, trimmed, segment) ==
    LET n == Find(trimmed, ":")
        key == ToAsciiLowercase(Trim(SubSeq(trimmed, 1, n - 1)))
        val == Unquote(Trim(SubSeq(trimmed, n + 1, Len(trimmed))))
        set == IF n = 0 THEN st
               ELSE CASE key = <<"d", "e", "s", "c", "r", "i", "p", "t", "i", "o", "n">> ->
                            [st EXCEPT !.desc = Some(val)]
                      [] key \in {<<"t", "o", "o", "l", "s", "_", "a", "l", "l", "o", "w", "e", "d">>,
                                  <<"t", "o", "o", "l", "s", "-", "a", "l", "l", "o", "w", "e", "d">>} ->
                            [st EXCEPT !.allowed = SplitList(val)]
                      [] key \in {<<"t", "o", "o", "l", "s", "_", "b", "l", "o", "c", "k", "e", "d">>,
                                  <<"t", "o", "o", "l", "s", "-", "b", "l", "o", "c", "k", "e", "d">>} ->
                            [st EXCEPT !.blocked = SplitList(val)]
                      [] key = <<"m", "o", "d", "e">> ->
                            [st EXCEPT !.mode = ParseMode(val)]
                      [] OTHER -> st
    IN  [set EXCEPT !.consumed = @ + Len(segment)]

\* for segment in segments { ... }
RECURSIVE ScanLines(_, _, _)
ScanLines(segments, i, st) ==
    IF i > Len(segments) THEN st
    ELSE LET segment == segments[i]
             trimmed == Trim(TrimEndMatches(segment))
         IN  IF trimmed = Marker THEN CloseBlock(st, segment)
             ELSE IF trimmed = <<>> \/ trimmed[1] = "#"
                  THEN ScanLines(segments, i + 1, SkipLine(st, segment))
                  ELSE ScanLines(segments, i + 1, KeyValueLine(st, trimmed, segment))

Unterminated_KeepsMetadata(content, st) ==
    Parsed(st.desc, st.allowed, st.blocked, st.mode, content)

\* if !frontmatter_closed { return (None, Vec::new(), Vec::new(), None, content) }
Unterminated(content, st) == Parsed(None, <<>>, <<>>, None, content)

\* parse_frontmatter
ParseFrontmatter(content) ==
    LET segments == SplitInclusive(content)
    IN  IF segments = <<>> THEN Parsed(None, <<>>, <<>>, None, <<>>)
        ELSE IF Trim(TrimEndMatches(segments[1])) /= Marker
             THEN Parsed(None, <<>>, <<>>, None, content)
             ELSE LET st == ScanLines(segments, 2, ScanStart(segments[1]))
                  IN  IF ~st.frontmatter_closed THEN Unterminated(content, st)
                      ELSE Parsed(st.desc, st.allowed, st.blocked, st.mode,
                                  IF st.consumed >= Len(content) THEN <<>>
                                  ELSE SubSeq(content, st.consumed + 1, Len(content)))

\* The documents parsed: up to MaxLines lines, each a text and a terminator.
LineTexts ==
    {Marker,
     <<"SP">> \o Marker \o <<"SP">>,
     <<"M", "o", "d", "e", ":", "SP", "DQUOTE", "d", "a", "n", "g", "e", "r", "DQUOTE">>,
     <<"x">>,
     <<>>}
Terminators == {<<"LF">>, <<"CR", "LF">>, <<>>}
Lines == {t \o e : t \in LineTexts, e \in Terminators}

RECURSIVE Concat(_)
Concat(ls) == IF ls = <<>> THEN <<>> ELSE Head(ls) \o Concat(Tail(ls))

Documents == {Concat(ls) : ls \in UNION {[1..n -> Lines] : n \in 0..MaxLines}}

InitParse ==
    /\ NoTask
    /\ policy = Idle
    /\ disc = Idle
    /\ parse \in {[pc |-> "call", content |-> c,
                   result |-> Parsed(None, <<>>, <<>>, None, <<>>)] : c \in Documents}

\* A call of parse_frontmatter(content) returns.
CallParseFrontmatter ==
    /\ parse.pc = "call"
    /\ parse' = [parse EXCEPT !.pc = "returned",
                              !.result = ParseFrontmatter(parse.content)]
    /\ UNCHANGED <<taskVars, policy, disc>>

NextParse == CallParseFrontmatter

SpecParse == InitParse /\ [][NextParse]_vars

----------------------------------------------------------------------------
\* Definition discovery: subagent_search_roots, discover_subagents and
\* discover_subagents_in over the directories of a file system.

MaxFiles == 2       \* entries of one directory

\* Byte value of the characters that occur in file names.
CharCode(c) ==
    IF \E k \in 1..26 : Upper[k] = c THEN 64 + (CHOOSE k \in 1..26 : Upper[k] = c)
    ELSE IF \E k \in 1..26 : Lower[k] = c THEN 96 + (CHOOSE k \in 1..26 : Lower[k] = c)
    ELSE IF c = "." THEN 46
    ELSE IF c = "-" THEN 45
    ELSE IF c = "_" THEN 95
    ELSE 32

\* Ordering of String: a <= b, byte by byte.
RECURSIVE StrLeq(_, _)
StrLeq(a, b) ==
    IF a = <<>> THEN TRUE
    ELSE IF b = <<>> THEN FALSE
    ELSE IF a[1] = b[1] THEN StrLeq(Tail(a), Tail(b))
    ELSE CharCode(a[1]) < CharCode(b[1])

\* Position of the last "." of a file name, 0 if there is none.
LastDot(name) ==
    IF \E i \in 1..Len(name) : name[i] = "."
    THEN CHOOSE i \in 1..Len(name) :
             name[i] = "." /\ \A j \in (i + 1)..Len(name) : name[j] /= "."
    ELSE 0

\* Path::extension: none without a dot or when the only dot leads the name.
Extension(name) ==
    IF LastDot(name) <= 1 THEN None
    ELSE Some(SubSeq(name, LastDot(name) + 1, Len(name)))

\* Path::file_stem
FileStem(name) ==
    IF LastDot(name) <= 1 THEN name ELSE SubSeq(name, 1, LastDot(name) - 1)

\* a.name.cmp(&b.name) is not Greater
NameLeq(a, b) == StrLeq(a.name, b.name)

\* Vec::sort_by(|a, b| a.name.cmp(&b.name)): a stable sort.
RECURSIVE InsertByName(_, _)
InsertByName(sorted, d) ==
    IF sorted = <<>> THEN <<d>>
    ELSE IF NameLeq(sorted[Len(sorted)], d) THEN Append(sorted, d)
    ELSE Append(InsertByName(SubSeq(sorted, 1, Len(sorted) - 1), d),
                sorted[Len(sorted)])

RECURSIVE SortByName(_)
SortByName(list) ==
    IF list = <<>> THEN <<>>
    ELSE InsertByName(SortByName(SubSeq(list, 1, Len(list) - 1)), list[Len(list)])

\* One iteration of `while let Ok(Some(entry)) = entries.next_entry().await`:
\* the definition pushed for the entry, or nothing when it is skipped.
DefinitionsOfEntry(root, entry) ==
    LET ext == Extension(entry.file_name)
        is_md == ext /= None /\ ToAsciiLowercase(ext[1]) = <<"m", "d">>
        parsed == ParseFrontmatter(entry.content)
    IN  IF entry.kind /= "file" THEN <<>>
        ELSE IF ~is_md THEN <<>>
        ELSE IF ~entry.readable THEN <<>>
        ELSE <<[name |-> FileStem(entry.file_name),
                path |-> [root |-> root, file_name |-> entry.file_name],
                system_prompt |-> parsed.body,
                description |-> parsed.description,
                tools_allowed |-> parsed.tools_allowed,
                tools_blocked |-> parsed.tools_blocked,
                mode |-> parsed.mode]>>

RECURSIVE CollectEntries(_, _)
CollectEntries(root, entries) ==
    IF entries = <<>> THEN <<>>
    ELSE DefinitionsOfEntry(root, Head(entries)) \o CollectEntries(root, Tail(entries))

\* discover_subagents_in
DiscoverSubagentsIn(dir) ==
    IF ~dir.exists THEN <<>>
    ELSE SortByName(CollectEntries(dir.root, dir.entries))

SubagentSearchRoots_HomeFirst(fs) ==
    (IF fs.home.resolved THEN <<fs.home>> ELSE <<>>)
        \o (IF fs.project.resolved THEN <<fs.project>> ELSE <<>>)

\* subagent_search_roots: the project's directory first, then the home one.
SubagentSearchRoots(fs) ==
    (IF fs.project.resolved THEN <<fs.project>> ELSE <<>>)
        \o (IF fs.home.resolved THEN <<fs.home>> ELSE <<>>)

\* if seen.insert(subagent.name.clone()) { subagents.push(subagent); }
RECURSIVE MergeFirstSeen(_, _)
MergeFirstSeen(acc, list) ==
    IF list = <<>> THEN acc
    ELSE LET d == Head(list)
         IN  IF d.name \in acc.seen THEN MergeFirstSeen(acc, Tail(list))
             ELSE MergeFirstSeen([seen |-> acc.seen \cup {d.name},
                                  subagents |-> Append(acc.subagents, d)],
                                 Tail(list))

\* The directory entries that can occur under a root; the content of a file
\* tells the root it lies in.
Entry(name, kind, readable, text) ==
    [file_name |-> name, kind |-> kind, readable |-> readable, content |-> text]

EntriesOf(root) ==
    LET text == IF root = "project" THEN <<"p">> ELSE <<"h">>
    IN  {Entry(<<"a", ".", "m", "d">>, "file", TRUE, text),
         Entry(<<"a", ".", "M", "D">>, "file", TRUE, text),
         Entry(<<"B", ".", "m", "d">>, "file", TRUE,
               <<"-", "-", "-", "LF", "-", "-", "-", "LF">> \o text),
         Entry(<<"b", "a", "d", ".", "m", "d">>, "file", FALSE, <<>>),
         Entry(<<"s", "u", "b", ".", "m", "d">>, "dir", FALSE, <<>>),
         Entry(<<".", "m", "d">>, "file", TRUE, text),
         Entry(<<"c", ".", "t", "x", "t">>, "file", TRUE, text)}

\* Listings of a directory, in the order read_dir yields them: file names
\* are distinct, the order is arbitrary.
Listings(root) ==
    {l \in UNION {[1..n -> EntriesOf(root)] : n \in 0..MaxFiles} :
        \A i, j \in 1..Len(l) : i /= j => l[i].file_name /= l[j].file_name}

\* A search root: unresolved, resolved but missing, or resolved with a listing.
Roots(root) ==
    {[root |-> root, resolved |-> FALSE, exists |-> FALSE, entries |-> <<>>],
     [root |-> root, resolved |-> TRUE, exists |-> FALSE, entries |-> <<>>]}
        \cup {[root |-> root, resolved |-> TRUE, exists |-> TRUE, entries |-> l] :
                 l \in Listings(root)}

InitDiscover ==
    /\ NoTask
    /\ policy = Idle
    /\ parse = Idle
    /\ disc \in {[pc |-> "call", fs |-> [project |-> pr, home |-> hr],
                  roots |-> <<>>, found |-> <<>>, seen |-> {}, subagents |-> <<>>,
                  result |-> <<>>] : pr \in Roots("project"), hr \in Roots("home")}

\* discover_subagents: subagent_search_roots(cwd)
SearchRoots ==
    /\ disc.pc = "call"
    /\ disc' = [disc EXCEPT !.pc = "roots", !.roots = SubagentSearchRoots(disc.fs)]
    /\ UNCHANGED <<taskVars, policy, parse>>

\* discover_subagents: one iteration of `for root in ...`; found logs the
\* lists returned by discover_subagents_in.
ScanRoot ==
    /\ disc.pc = "roots"
    /\ Len(disc.found) < Len(disc.roots)
    /\ LET list == DiscoverSubagentsIn(disc.roots[Len(disc.found) + 1])
           acc == MergeFirstSeen([seen |-> disc.seen, subagents |-> disc.subagents],
                                 list)
       IN  disc' = [disc EXCEPT !.found = Append(@, list), !.seen = acc.seen,
                                !.subagents = acc.subagents]
    /\ UNCHANGED <<taskVars, policy, parse>>

\* discover_subagents: subagents.sort_by(..); subagents
SortAndReturn ==
    /\ disc.pc = "roots"
    /\ Len(disc.found) = Len(disc.roots)
    /\ disc' = [disc EXCEPT !.pc = "returned", !.result = SortByName(disc.subagents)]
    /\ UNCHANGED <<taskVars, policy, parse>>

NextDiscover ==
    \/ SearchRoots
    \/ ScanRoot
    \/ SortAndReturn

SpecDiscover == InitDiscover /\ [][NextDiscover]_vars

----------------------------------------------------------------------------
\* Observations on the published lifecycle events and the consumed events.

IsStarted(e) == e.type = "SubAgentInvocationStarted"
IsFinished(e) == e.type = "SubAgentInvocationFinished"
IsRunFinished(e) == IsFinished(e) /\ e.by = "run"

StartedEvents == SelectSeq(events, IsStarted)
FinishedEvents == SelectSeq(events, IsFinished)
RunFinishedEvents == SelectSeq(events, IsRunFinished)

\* Positions in the session's event log.
StartedAt == {i \in 1..Len(events) : IsStarted(events[i])}
RunFinishedAt == {i \in 1..Len(events) : IsRunFinished(events[i])}

IsAgentMessage(ev) == ev.type = "AgentMessage"
IsErrorEvent(ev) == ev.type = "Error"
IsTurnAborted(ev) == ev.type = "TurnAborted"
IsTerminalEvent(ev) == ev.type \in {"TaskComplete", "TurnAborted", "Error"}

AgentMessagesConsumed == SelectSeq(consumed, IsAgentMessage)

\* Text of the most recently consumed agent message, if any.
LastAgentMessage ==
    IF AgentMessagesConsumed = <<>> THEN None
    ELSE Some(AgentMessagesConsumed[Len(AgentMessagesConsumed)].message)

\* No event was read after the last one of consumed, which is terminal.
StoppedAtLast ==
    /\ consumed /= <<>>
    /\ IsTerminalEvent(consumed[Len(consumed)])
    /\ \A i \in 1..(Len(consumed) - 1) : ~IsTerminalEvent(consumed[i])

\* run has left run_subagent.
Left == pc \in {"finishing", "done", "dropped"} /\ branch /= "none"

----------------------------------------------------------------------------
\* C1: every run that returns, on whichever terminal path, has published
\* exactly one finished event, and published it after its single started
\* event; run never publishes more than one of either.
C1_RunPublishesOneFinished ==
    /\ Cardinality(StartedAt) <= 1
    /\ Cardinality(RunFinishedAt) <= 1
    /\ pc = "done" =>
          /\ branch \in {"start_failed", "task_complete", "error",
                         "turn_aborted", "recv_error", "cancel"}
          /\ Cardinality(StartedAt) = 1
          /\ Cardinality(RunFinishedAt) = 1
          /\ \A i \in StartedAt : \A j \in RunFinishedAt : i < j

C1_Witness ==
    /\ pc = "done"
    /\ branch = "error"
    /\ aborts = 0
    /\ Len(events) = 2

\* C2: with abort callable at any point, the finished event is published
\* exactly once per invocation across run and abort: never twice, and not
\* zero times once run has returned or a dropped run has been aborted.
C2_FinishedExactlyOnce ==
    /\ Len(FinishedEvents) <= 1
    /\ (pc = "done" \/ (pc = "dropped" /\ aborts > 0)) => Len(FinishedEvents) = 1

\* C3: engine started, one or more agent messages consumed (ignored kinds
\* in between), then task-complete, cancellation branch not taken: the
\* outcome is Completed with the most recent message as output and no error.
C3_CompletedWithLastMessage ==
    (Left /\ branch = "task_complete" /\ AgentMessagesConsumed /= <<>>) =>
        /\ io = IoOk
        /\ status = "Completed"
        /\ output = LastAgentMessage
        /\ error = None

C3_Witness ==
    /\ pc = "done"
    /\ branch = "task_complete"
    /\ Len(AgentMessagesConsumed) >= 2
    /\ AgentMessagesConsumed[1].message /= AgentMessagesConsumed[2].message
    /\ output = Some(AgentMessagesConsumed[2].message)

\* C4: an error event with message M consumed anywhere in the loop gives
\* Failed, no output, error M at once; nothing is consumed after it, and
\* the finished event run publishes carries these values.
C4_ErrorEventFails ==
    (Left /\ branch = "error") =>
        /\ StoppedAtLast
        /\ IsErrorEvent(consumed[Len(consumed)])
        /\ status = "Failed"
        /\ output = None
        /\ error = Some(consumed[Len(consumed)].message)
        /\ pc = "done" =>
              \A j \in RunFinishedAt :
                  /\ events[j].status = "Failed"
                  /\ events[j].output = None
                  /\ events[j].error = Some(consumed[Len(consumed)].message)

C4_Witness ==
    /\ pc = "done"
    /\ branch = "error"
    /\ AgentMessagesConsumed /= <<>>
    /\ queue /= <<>>
    /\ RunFinishedAt /= {}

\* C5: a failed engine start gives Failed, no output and the failure's
\* description as error; no engine event is ever delivered or consumed,
\* a triggered token does not change the status, and run publishes the
\* started event and one finished event with that outcome.
C5_StartFailure ==
    (io.tag = "Err") =>
        /\ branch = "start_failed"
        /\ pc \in {"finishing", "done", "dropped"}
        /\ status = "Failed"
        /\ output = None
        /\ error = Some(io.err)
        /\ consumed = <<>>
        /\ queue = <<>>
        /\ pc = "done" =>
              /\ SelectSeq(events, LAMBDA e : e.by = "run") =
                    <<StartedEvent(definition),
                      FinishedEvent(definition, "Failed", None, Some(io.err))>>
              /\ retval = None

C5_Witness ==
    /\ io.tag = "Err"
    /\ token
    /\ pc = "done"
    /\ Len(RunFinishedEvents) = 1
    /\ RunFinishedEvents[1].status = "Failed"

\* C6: engine started and the token triggered before any event arrived:
\* the outcome is Cancelled with no output and no error.
C6_CancelledBeforeAnyEvent ==
    (Left /\ branch = "cancel" /\ consumed = <<>>) =>
        /\ io = IoOk
        /\ status = "Cancelled"
        /\ output = None
        /\ error = None

C6_Witness ==
    /\ pc = "done"
    /\ branch = "cancel"
    /\ consumed = <<>>
    /\ queue = <<>>
    /\ RunFinishedEvents = <<FinishedEvent(definition, "Cancelled", None, None)>>

\* C7: whenever the cancellation branch is taken, the invocation is
\* Cancelled and the buffered output is discarded: the output of the
\* outcome, of the finished event and of run's return value is absent.
C7_CancelDiscardsOutput ==
    (Left /\ branch = "cancel") =>
        /\ status = "Cancelled"
        /\ output = None
        /\ pc = "done" =>
              /\ retval = None
              /\ \A j \in RunFinishedAt : events[j].output = None

\* C8: a stream receive error or a turn-aborted event resolves the
\* invocation to Cancelled with no error, never Failed, and no event is
\* consumed afterwards.
C8_InterruptionCancels ==
    (Left /\ branch \in {"recv_error", "turn_aborted"}) =>
        /\ status = "Cancelled"
        /\ status /= "Failed"
        /\ error = None
        /\ branch = "turn_aborted" =>
              StoppedAtLast /\ IsTurnAborted(consumed[Len(consumed)])
        /\ branch = "recv_error" =>
              /\ closed
              /\ queue = <<>>
              /\ \A i \in 1..Len(consumed) : ~IsTerminalEvent(consumed[i])
        /\ pc = "done" =>
              \A j \in RunFinishedAt :
                  events[j].status = "Cancelled" /\ events[j].error = None

C8_Witness ==
    /\ pc = "done"
    /\ branch = "recv_error"
    /\ consumed /= <<>>
    /\ RunFinishedAt /= {}

\* C9: every call of abort publishes exactly one finished event with the
\* task's definition, status Cancelled, no output and no error, and changes
\* nothing else: not the token, not the engine, not run's locals.
C9_AbortOnlyPublishes ==
    [][aborts' /= aborts =>
          /\ aborts' = aborts + 1
          /\ events' = Append(events,
                 [type |-> "SubAgentInvocationFinished", subagent |-> definition,
                  status |-> "Cancelled", output |-> None, error |-> None,
                  by |-> "abort"])
          /\ UNCHANGED <<fnVars, scope, definition, pc, token, io, queue, closed, consumed,
                         status, output, error, branch, retval>>]_vars

C9_Witness ==
    /\ aborts > 0
    /\ pc = "select"
    /\ ~token
    /\ output /= None
    /\ events[Len(events)] = AbortEvent(definition)

\* C10: the value run returns equals the output of the finished event run
\* published; it is the last recorded agent-message text, absent if no
\* agent message was recorded or the output was cleared by a failure.
C10_ReturnIsPublishedOutput ==
    pc = "done" =>
        /\ \A j \in RunFinishedAt : retval = events[j].output
        /\ retval = IF status = "Failed" THEN None ELSE LastAgentMessage
        /\ AgentMessagesConsumed = <<>> => retval = None

C10_Witness ==
    /\ pc = "done"
    /\ branch = "cancel"
    /\ retval \in {Some(m) : m \in Messages}
    /\ RunFinishedAt /= {}

\* C16: once the loop has taken a terminal branch, run reads no further
\* event: events buffered or arriving later stay unread and the status,
\* output and error of the outcome no longer change.
C16_NoReadAfterTerminal ==
    [][(branch /= "none" /\ branch /= "start_failed") =>
          /\ consumed' = consumed
          /\ pc' /= "select"
          /\ UNCHANGED <<status, output, error, branch>>
          /\ (queue' = queue \/ queue' \in {Append(queue, ev) : ev \in EngineEvents})]_vars

C16_Witness ==
    /\ pc = "done"
    /\ branch = "task_complete"
    /\ Len(queue) >= 2
    /\ IsAgentMessage(queue[1])
    /\ IsErrorEvent(queue[2])
    /\ status = "Completed"

\* C17: consuming an event of any kind other than agent-message,
\* task-complete, turn-aborted or error leaves status, output and error
\* unchanged, publishes nothing, and run waits on the race again.
C17_OtherEventIgnored ==
    [][(Len(consumed') = Len(consumed) + 1
          /\ consumed'[Len(consumed')].type
                \notin {"AgentMessage", "TaskComplete", "TurnAborted", "Error"}) =>
          /\ UNCHANGED <<status, output, error, branch, events, retval>>
          /\ pc = "select"
          /\ pc' = "select"]_vars

C17_Witness ==
    /\ pc = "select"
    /\ Len(consumed) >= 2
    /\ IsAgentMessage(consumed[1])
    /\ consumed[Len(consumed)] = OtherEvent
    /\ output = Some(consumed[1].message)
    /\ status = "Completed"

\* C18: the engine runs under a child scope of the supplied token: when the
\* token is triggered the engine's scope is cancelled in that same step,
\* with no step of run; cancelling the engine's scope on its own leaves the
\* token untriggered, and the cancellation branch is taken only when the
\* token is triggered.
C18_ChildScope ==
    /\ []((token /\ scope.kind /= "none") => scope.cancelled)
    /\ [](branch = "cancel" => token)
    /\ []((scope.by = "self" /\ ~token /\ pc = "select") => ~ENABLED SelectCancelled)
    /\ [][(token' /\ ~token) =>
             /\ scope.kind /= "none" => scope'.cancelled
             /\ UNCHANGED <<pc, status, output, error, branch, events>>]_vars
    /\ [][(scope'.by = "self" /\ scope.by /= "self") => token' = token]_vars

C18_Witness ==
    /\ pc = "select"
    /\ scope.cancelled
    /\ scope.by = "self"
    /\ ~token
    /\ consumed /= <<>>

\* C20: in every finished event, published by run or by abort, the error
\* text is present exactly when the status is Failed, and a Failed event
\* has no output.
C20_ErrorIffFailed ==
    \A i \in 1..Len(events) :
        IsFinished(events[i]) =>
            /\ events[i].error /= None <=> events[i].status = "Failed"
            /\ events[i].status = "Failed" => events[i].output = None

C20_Witness ==
    /\ Len(FinishedEvents) = 2
    /\ FinishedEvents[1].status = "Failed"
    /\ FinishedEvents[1].error /= None
    /\ FinishedEvents[2].by = "abort"
    /\ AgentMessagesConsumed /= <<>>

\* C19: with the race branches scheduled fairly, once the token is triggered
\* run reaches one terminal outcome and publishes its finished event, even
\* if the engine delivers non-terminal events for ever; and run leaves the
\* Running state only on a triggered token, a terminal event or a stream
\* error: no timeout ends it.
C19_CancelTerminatesNoTimeout ==
    /\ token ~> (pc = "done" /\ branch /= "none" /\ Cardinality(RunFinishedAt) = 1)
    /\ [][(pc = "select" /\ pc' /= "select") =>
             \/ token
             \/ queue = <<>> /\ closed
             \/ queue /= <<>> /\ IsTerminalEvent(Head(queue))]_vars

C19_Witness ==
    /\ pc = "done"
    /\ branch = "cancel"
    /\ Len(consumed) = MaxEvents
    /\ \A i \in 1..Len(consumed) : consumed[i] = OtherEvent
    /\ queue /= <<>>
    /\ ~closed

\* C11: the policy the engine is configured with depends only on the
\* definition's mode (ReadOnly when unset) and the turn's policy: ReadOnly
\* gives the fixed read-only policy and DangerFullAccess the unrestricted
\* one whatever the default; FullAuto gives a workspace-write policy whose
\* network flag is the default's effective network access and whose two
\* exclusion flags are the default's if it is workspace-write, else false.
C11_PolicyFromMode ==
    policy.pc = "configured" =>
        LET mode == IF policy.mode = None THEN "ReadOnly" ELSE policy.mode[1]
            d == policy.default
            c == policy.config
            write == d.kind = "WorkspaceWrite"
        IN  /\ mode = "ReadOnly" =>
                  c = [kind |-> "ReadOnly", writable_roots |-> <<>>,
                       network_access |-> FALSE, exclude_tmpdir_env_var |-> FALSE,
                       exclude_slash_tmp |-> FALSE]
            /\ mode = "DangerFullAccess" =>
                  c = [kind |-> "DangerFullAccess", writable_roots |-> <<>>,
                       network_access |-> FALSE, exclude_tmpdir_env_var |-> FALSE,
                       exclude_slash_tmp |-> FALSE]
            /\ mode = "FullAuto" =>
                  /\ c.kind = "WorkspaceWrite"
                  /\ c.network_access =
                        (d.kind = "DangerFullAccess" \/ (write /\ d.network_access))
                  /\ c.exclude_tmpdir_env_var = (write /\ d.exclude_tmpdir_env_var)
                  /\ c.exclude_slash_tmp = (write /\ d.exclude_slash_tmp)

C11_Witness ==
    /\ policy.pc = "configured"
    /\ policy.mode = Some("FullAuto")
    /\ policy.default.kind = "WorkspaceWrite"
    /\ policy.default.network_access
    /\ policy.default.exclude_slash_tmp
    /\ ~policy.default.exclude_tmpdir_env_var
    /\ policy.config.network_access
    /\ policy.config.exclude_slash_tmp

----------------------------------------------------------------------------
\* The lines of a document, read off the positions of its line feeds.

LastOf(S) == CHOOSE i \in S : \A j \in S : j <= i
FirstOf(S) == CHOOSE i \in S : \A j \in S : i <= j

\* Positions at which a line of text c ends (its line feed, or the end of c).
LineEnds(c) == {i \in 1..Len(c) : c[i] = "LF" \/ i = Len(c)}

\* Position at which the line ending at e starts.
LineStart(c, e) == 1 + LastOf({0} \cup {i \in LineEnds(c) : i < e})

\* The line ending at e is `---` with nothing but whitespace around it.
IsMarkerLine(c, e) ==
    \E a \in LineStart(c, e)..e :
        /\ a + 2 <= e
        /\ SubSeq(c, a, a + 2) = <<"-", "-", "-">>
        /\ \A i \in (LineStart(c, e)..(a - 1)) \cup ((a + 3)..e) :
              c[i] \in {"SP", "TAB", "CR", "LF"}

\* Ends of the closing marker lines: marker lines after the first line.
ClosingEnds(c) ==
    {e \in LineEnds(c) : e > FirstOf(LineEnds(c)) /\ IsMarkerLine(c, e)}

\* c opens with a marker line and a later marker line closes the block.
HasClosedBlock(c) ==
    /\ c /= <<>>
    /\ IsMarkerLine(c, FirstOf(LineEnds(c)))
    /\ ClosingEnds(c) /= {}

\* C14: a text without a complete metadata block (first line not `---`, or
\* no closing `---` line) comes back unchanged as body, with description
\* absent, both tool lists empty and mode absent, also when recognized keys
\* were scanned before the end of input.
C14_NoBlockReturnsInput ==
    (parse.pc = "returned" /\ ~HasClosedBlock(parse.content)) =>
        parse.result =
            [description |-> None, tools_allowed |-> <<>>, tools_blocked |-> <<>>,
             mode |-> None, body |-> parse.content]

C14_Witness ==
    /\ parse.pc = "returned"
    /\ parse.content =
          <<"-", "-", "-", "LF",
            "M", "o", "d", "e", ":", "SP", "DQUOTE", "d", "a", "n", "g", "e", "r",
            "DQUOTE", "LF", "x">>
    /\ parse.result.mode = None
    /\ parse.result.body = parse.content

\* C15: with a closed metadata block, body is exactly the text after the
\* closing marker's line, terminators untouched: the consumed prefix
\* followed by body is the input, and body is empty when the closing marker
\* is the last line.
C15_BodyIsSuffix ==
    (parse.pc = "returned" /\ HasClosedBlock(parse.content)) =>
        LET c == parse.content
            closing == FirstOf(ClosingEnds(c))
        IN  /\ parse.result.body = SubSeq(c, closing + 1, Len(c))
            /\ SubSeq(c, 1, closing) \o parse.result.body = c
            /\ closing = Len(c) => parse.result.body = <<>>

C15_Witness ==
    /\ parse.pc = "returned"
    /\ parse.content =
          <<"-", "-", "-", "CR", "LF", "SP", "-", "-", "-", "SP", "CR", "LF",
            "x", "CR", "LF">>
    /\ parse.result.body = <<"x", "CR", "LF">>

----------------------------------------------------------------------------
\* What a file system holds, read off its directories without scanning them.

\* A readable regular file whose name is a non-empty stem followed by ".md"
\* in any case.
IsSubagentFile(e) ==
    /\ e.kind = "file"
    /\ e.readable
    /\ Len(e.file_name) > 3
    /\ SubSeq(e.file_name, Len(e.file_name) - 2, Len(e.file_name))
          \in {<<".", c1, c2>> : c1 \in {"m", "M"}, c2 \in {"d", "D"}}

StemOf(e) == SubSeq(e.file_name, 1, Len(e.file_name) - 3)

\* The subagent files of a root; none if it is unresolved or missing.
FilesIn(r) ==
    IF r.resolved /\ r.exists
    THEN {r.entries[i] : i \in {k \in 1..Len(r.entries) : IsSubagentFile(r.entries[k])}}
    ELSE {}

NamesIn(r) == {StemOf(e) : e \in FilesIn(r)}

\* The text after the metadata block of the files of a root.
PromptIn(r) == IF r.root = "project" THEN <<"p">> ELSE <<"h">>

NamesOfList(list) == {list[i].name : i \in 1..Len(list)}

DistinctNames(list) ==
    \A i, j \in 1..Len(list) :
        /\ list[i].name /= <<>>
        /\ i /= j => list[i].name /= list[j].name

\* C12: top-level discovery returns a list sorted ascending by name, holding
\* every name found in any root exactly once, and a name found in several
\* roots comes with the path and system_prompt of the highest-priority root
\* (project before home) that contains it.
C12_PriorityRootWins ==
    disc.pc = "returned" =>
        LET res == disc.result
            project == disc.fs.project
            home == disc.fs.home
        IN  /\ \A i, j \in 1..Len(res) :
                  i < j => res[i].name /= res[j].name /\ StrLeq(res[i].name, res[j].name)
            /\ NamesOfList(res) = NamesIn(project) \cup NamesIn(home)
            /\ \A i \in 1..Len(res) :
                  LET winner == IF res[i].name \in NamesIn(project)
                                THEN project ELSE home
                  IN  /\ res[i].path.root = winner.root
                      /\ res[i].system_prompt = PromptIn(winner)
                      /\ \E e \in FilesIn(winner) :
                            /\ StemOf(e) = res[i].name
                            /\ res[i].path.file_name = e.file_name

C12_Witness ==
    /\ disc.pc = "returned"
    /\ <<"a">> \in NamesIn(disc.fs.project) \cap NamesIn(disc.fs.home)
    /\ <<"B">> \in NamesIn(disc.fs.home) \ NamesIn(disc.fs.project)
    /\ Len(disc.result) = 2
    /\ disc.result[1].name = <<"B">>
    /\ disc.result[1].system_prompt = <<"h">>
    /\ disc.result[2].name = <<"a">>
    /\ disc.result[2].system_prompt = <<"p">>

\* C13: every list a discovery pass produces, by discover_subagents_in for
\* one directory or by discover_subagents, has non-empty and pairwise
\* distinct names, whatever the directory holds (a.md next to a.MD).
C13_NamesUnique ==
    /\ \A k \in 1..Len(disc.found) : DistinctNames(disc.found[k])
    /\ DistinctNames(disc.subagents)
    /\ DistinctNames(disc.result)

\* C21: a finished event with status Completed is published only by run,
\* after the engine started and a task-complete event was the last event
\* its loop consumed; a run that ended by cancellation, stream error,
\* turn-aborted, error event or start failure never reports Completed,
\* although status holds Completed all the while run waits on the race.
C21_CompletedOnlyOnTaskComplete ==
    /\ pc = "select" => status = "Completed"
    /\ \A i \in 1..Len(events) :
          (IsFinished(events[i]) /\ events[i].status = "Completed") =>
              /\ events[i].by = "run"
              /\ io = IoOk
              /\ branch = "task_complete"
              /\ consumed /= <<>>
              /\ consumed[Len(consumed)] = TaskComplete
              /\ \A k \in 1..(Len(consumed) - 1) : ~IsTerminalEvent(consumed[k])
    /\ (pc = "done" /\ branch /= "task_complete") =>
          \A j \in RunFinishedAt : events[j].status \in {"Cancelled", "Failed"}

C21_Witness ==
    /\ pc = "done"
    /\ consumed = <<OtherEvent, TaskComplete>>
    /\ token
    /\ aborts = 1
    /\ Len(FinishedEvents) = 2
    /\ FinishedEvents[1].status = "Completed"
    /\ FinishedEvents[1].output = None
    /\ FinishedEvents[2].status = "Cancelled"

====
